---------------------------- MODULE Spec2Model ----------------------------
(***************************************************************************)
(* Model of the trading-system entry point (src/main.py): MainSystem's     *)
(* authenticate / discover_accounts / log_system_status / cleanup methods, *)
(* run() and main().                                                        *)
(*                                                                          *)
(* The collaborators (CredentialManager, SessionManager, LoginManager,     *)
(* AccountManager, the webull client) are opaque: every call to one of     *)
(* them is one step whose outcome is drawn from                            *)
(*    "T"  the call returned a truthy value                                *)
(*    "F"  the call returned a falsy value                                 *)
(*    "X"  the call raised an Exception                                    *)
(*    "I"  the process was interrupted (KeyboardInterrupt) inside the call *)
(* Logging calls are not modelled (spec section 6: not part of the         *)
(* functional contract).  Interrupts are delivered while the process is    *)
(* blocked in a collaborator call or in the retry sleep.                   *)
(*                                                                          *)
(* Two drivers exercise the methods:                                       *)
(*    "main"  main(): construct, run(), sys.exit, finally cleanup          *)
(*    "api"   a client that holds a constructed MainSystem and calls its   *)
(*            public methods, and runs the DID maintenance script          *)
(*            (src/tests/check_did.py), in any order (at most MaxApiCalls  *)
(*            operations)                                                  *)
(***************************************************************************)
EXTENDS Integers, Sequences, FiniteSets, TLC

VARIABLES
    driver,        \* "main" | "api"
    pc,            \* position in the code
    method,        \* public method being executed / last executed
    ret,           \* "running" | result of `method`: "T","F","N"(None),"I","X"
    log,           \* collaborator calls of the current invocation: <<name, outcome>>
    errLogged,     \* an except-handler of `method` ran in this invocation
    is_logged_in,  \* MainSystem.is_logged_in
    stored_did,    \* authenticate's local stored_did
    attempt,       \* authenticate's loop variable
    storedCreds,   \* credential store: NoRecord, or the record's did ("" = none)
    sessionSaved,  \* session cache holds a session
    wbDid,         \* device identifier of the webull client
    didBin,        \* content of did.bin
    system,        \* main()'s local `system` is not None
    pending,       \* code passed to sys.exit, -1 before
    exitCode,      \* process exit status, -1 while running
    cleanupCalls,  \* invocations of cleanup() by main()
    steps,         \* results of run()'s steps
    apiCalls,      \* operations started by the api driver
    verified,      \* a check_login_status / login_automatically call returned True
    new_did,       \* update_did_in_credentials' local new_did
    symIn,         \* validate_symbols: the argument symbol_list
    symOut,        \* validate_symbols: the returned list
    symPc,         \* "off" | "call" | "done" | "again": position of the validate_symbols caller
    symAgain,      \* validate_symbols applied to its own result
    strategy_name, \* get_stocks_for_strategy: the argument
    stratOut,      \* get_stocks_for_strategy: the returned list
    stratPc,       \* "off" | "call" | "done"
    max_symbols_per_strategy,  \* optimize_for_performance: the argument
    optimized,     \* optimize_for_performance: the returned mapping
    optPc          \* "off" | "call" | "done"

vars == <<driver, pc, method, ret, log, errLogged, is_logged_in, stored_did,
          attempt, storedCreds, sessionSaved, wbDid, didBin, system, pending,
          exitCode, cleanupCalls, steps, apiCalls, verified, new_did,
          symIn, symOut, symPc, symAgain, strategy_name, stratOut, stratPc,
          max_symbols_per_strategy, optimized, optPc>>

\* the state of MainSystem, main() and the DID script
sysVars == <<driver, pc, method, ret, log, errLogged, is_logged_in, stored_did,
             attempt, storedCreds, sessionSaved, wbDid, didBin, system, pending,
             exitCode, cleanupCalls, steps, apiCalls, verified, new_did>>

\* the stock-list library's state: untouched by MainSystem and the DID script
symVars == <<symIn, symOut, symPc, symAgain>>
stratVars == <<strategy_name, stratOut, stratPc,
               max_symbols_per_strategy, optimized, optPc>>
libVars == <<symVars, stratVars>>

\* ---------------------------------------------------------------- bounds
MaxApiCalls == 2

MaxSymLen == 2      \* characters in a symbol
MaxSymbols == 2     \* symbols in a list given to validate_symbols
MaxPerStrategy == 30  \* largest max_symbols_per_strategy given to optimize_for_performance

\* ------------------------------------------------------------- constants
max_attempts == 3

NoRecord == "none"
DIDs == {"d1", "d2"}        \* device identifiers of 32 characters
ShortDIDs == {"s1"}         \* a device identifier of another length
NoSteps == [init |-> "none", auth |-> "none", disc |-> "none", status |-> "none"]

\* ---------------------------------------------------- control-flow helpers
Go(p) == [pc |-> p, ret |-> "running"]
Ret(v) == [pc |-> "returned", ret |-> v]

EntryPc(m) ==
    CASE m = "authenticate" -> "auth_start"
      [] m = "discover_accounts" -> "disc_start"
      [] m = "log_system_status" -> "status_login_info"
      [] m = "cleanup" -> "cleanup_restore"
      [] m = "update_did" -> "did_input"

\* A public method is entered: a fresh invocation record.
Invoke(m) ==
    /\ method' = m
    /\ ret' = "running"
    /\ log' = <<>>
    /\ errLogged' = FALSE
    /\ pc' = EntryPc(m)

\* One collaborator call with outcome o, continuing as `next` says.
Call(name, o, next) ==
    /\ log' = Append(log, <<name, o>>)
    /\ pc' = next.pc
    /\ ret' = next.ret


\* KeyboardInterrupt is no Exception: no handler of MainSystem catches it.
Interrupted == Ret("I")

\* ------------------------------------------------------------ environment
\* credentials_exist() reports whether the store holds a record.
CredentialsExistOutcomes ==
    {IF storedCreds = NoRecord THEN "F" ELSE "T", "X", "I"}

\* load_credentials() needs a record to load; without one the .get fails.
LoadCredentialsOutcomes ==
    (IF storedCreds = NoRecord THEN {} ELSE {"T"}) \cup {"X", "I"}

\* auto_manage_session() can restore only a session the cache holds.
AutoManageSessionOutcomes ==
    (IF sessionSaved THEN {"T"} ELSE {}) \cup {"F", "X", "I"}

Outcomes == {"T", "F", "X", "I"}
VoidOutcomes == {"T", "X", "I"}

\* ----------------------------------------------------------- authenticate
\* mutant: the handler logs and re-raises, as _initialize_system's does
AuthExcept_Reraise == Ret("X")

\* except Exception: log, return False
AuthExcept == Ret("F")

\* mutant: the missing-credentials branch logs and falls through
OnCredentialsExist_NoReturn(o) ==
    CASE o \in {"T", "F"} -> Go("auth_load")
      [] o = "X" -> Ret("F")
      [] o = "I" -> Ret("I")

OnCredentialsExist(o) ==
    CASE o = "T" -> Go("auth_load")
      [] o = "F" -> Ret("F")
      [] o = "X" -> AuthExcept
      [] o = "I" -> Interrupted

\* mutant: the stored device identifier is never applied
OnLoadCredentials_SkipDid(o, did) ==
    CASE o = "T" -> Go("auth_session")
      [] o = "X" -> Ret("F")
      [] o = "I" -> Ret("I")

OnLoadCredentials(o, did) ==
    CASE o = "T" -> IF did # "" THEN Go("auth_set_did") ELSE Go("auth_session")
      [] o = "X" -> AuthExcept
      [] o = "I" -> Interrupted

OnSetDid(o) ==
    CASE o = "T" -> Go("auth_did_bin")
      [] o = "X" -> AuthExcept
      [] o = "I" -> Interrupted

\* mutant: the did.bin write is not guarded, its failure reaches the handler
OnDidBin_Fatal(o) ==
    CASE o = "T" -> Go("auth_session")
      [] o = "X" -> Ret("F")
      [] o = "I" -> Ret("I")

\* the did.bin write has its own try/except: a failure is only logged
OnDidBin(o) ==
    CASE o = "T" -> Go("auth_session")
      [] o = "X" -> Go("auth_session")
      [] o = "I" -> Interrupted

OnAutoManageSession(o) ==
    CASE o = "T" -> Go("auth_check")
      [] o = "F" -> Go("auth_login")
      [] o = "X" -> AuthExcept
      [] o = "I" -> Interrupted

\* mutant: a verified cached session is saved again before returning
OnCheckLoginStatus_SaveVerified(o) ==
    CASE o = "T" -> Go("auth_save")
      [] o = "F" -> Go("auth_clear")
      [] o = "X" -> Ret("F")
      [] o = "I" -> Ret("I")

\* mutant: a verified session does not return, it falls through to the login loop
OnCheckLoginStatus_NoReturn(o) ==
    CASE o = "T" -> Go("auth_login")
      [] o = "F" -> Go("auth_clear")
      [] o = "X" -> Ret("F")
      [] o = "I" -> Ret("I")

\* mutant: a failed verification goes to the login loop without clear_session
OnCheckLoginStatus_NoClear(o) ==
    CASE o = "T" -> Ret("T")
      [] o = "F" -> Go("auth_login")
      [] o = "X" -> Ret("F")
      [] o = "I" -> Ret("I")

OnCheckLoginStatus(o) ==
    CASE o = "T" -> Ret("T")
      [] o = "F" -> Go("auth_clear")
      [] o = "X" -> AuthExcept
      [] o = "I" -> Interrupted

\* clear_session()'s return value is ignored
OnClearSession(o) ==
    CASE o \in {"T", "F"} -> Go("auth_login")
      [] o = "X" -> AuthExcept
      [] o = "I" -> Interrupted

OnLogin(o, a) ==
    CASE o = "T" -> Go("auth_save")
      [] o = "F" -> IF a < max_attempts THEN Go("auth_sleep") ELSE Ret("F")
      [] o = "X" -> AuthExcept
      [] o = "I" -> Interrupted

OnSleep(o) ==
    CASE o = "T" -> Go("auth_login")
      [] o = "I" -> Interrupted

OnSaveSession(o) ==
    CASE o \in {"T", "F"} -> Ret("T")
      [] o = "X" -> AuthExcept
      [] o = "I" -> Interrupted

AuthCredentialsExist ==
    /\ pc = "auth_start"
    /\ \E o \in CredentialsExistOutcomes :
          /\ Call("credentials_exist", o, OnCredentialsExist(o))
          /\ errLogged' = (errLogged \/ o = "X")
    /\ stored_did' = ""
    /\ attempt' = 0
    /\ UNCHANGED <<libVars, new_did, verified, driver, method, is_logged_in, storedCreds, sessionSaved,
                   wbDid, didBin, system, pending, exitCode, cleanupCalls,
                   steps, apiCalls>>

\* mutant: a record without device identifier gets a generated one written back
CredsAfterLoad_StoreDid(creds) == IF creds = "" THEN "d1" ELSE creds

\* load_credentials() and .get('did') only read: the store keeps its record
CredsAfterLoad(creds) == creds

AuthLoadCredentials ==
    /\ pc = "auth_load"
    /\ \E o \in LoadCredentialsOutcomes :
          /\ Call("load_credentials", o, OnLoadCredentials(o, storedCreds))
          /\ stored_did' = IF o = "T" THEN storedCreds ELSE stored_did
          /\ storedCreds' = IF o = "T" THEN CredsAfterLoad(storedCreds) ELSE storedCreds
          /\ errLogged' = (errLogged \/ o = "X")
    /\ UNCHANGED <<libVars, new_did, verified, driver, method, is_logged_in, attempt,
                   sessionSaved, wbDid, didBin, system, pending, exitCode,
                   cleanupCalls, steps, apiCalls>>

AuthSetDid ==
    /\ pc = "auth_set_did"
    /\ \E o \in VoidOutcomes :
          /\ Call("_set_did", o, OnSetDid(o))
          /\ wbDid' = IF o = "T" THEN stored_did ELSE wbDid
          /\ errLogged' = (errLogged \/ o = "X")
    /\ UNCHANGED <<libVars, new_did, verified, driver, method, is_logged_in, stored_did, attempt,
                   storedCreds, sessionSaved, didBin, system, pending,
                   exitCode, cleanupCalls, steps, apiCalls>>

AuthDidBin ==
    /\ pc = "auth_did_bin"
    /\ \E o \in VoidOutcomes :
          /\ Call("did_bin", o, OnDidBin(o))
          /\ didBin' = IF o = "T" THEN stored_did ELSE didBin
    /\ UNCHANGED <<libVars, new_did, verified, driver, method, errLogged, is_logged_in, stored_did,
                   attempt, storedCreds, sessionSaved, wbDid, system, pending,
                   exitCode, cleanupCalls, steps, apiCalls>>

AuthAutoManageSession ==
    /\ pc = "auth_session"
    /\ \E o \in AutoManageSessionOutcomes :
          /\ Call("auto_manage_session", o, OnAutoManageSession(o))
          /\ attempt' = IF o = "F" THEN 1 ELSE attempt
          /\ errLogged' = (errLogged \/ o = "X")
    /\ UNCHANGED <<libVars, new_did, verified, driver, method, is_logged_in, stored_did, storedCreds,
                   sessionSaved, wbDid, didBin, system, pending, exitCode,
                   cleanupCalls, steps, apiCalls>>

AuthCheckLoginStatus ==
    /\ pc = "auth_check"
    /\ \E o \in Outcomes :
          /\ Call("check_login_status", o, OnCheckLoginStatus(o))
          /\ is_logged_in' = IF o = "T" THEN TRUE ELSE is_logged_in
          /\ verified' = (verified \/ o = "T")
          /\ errLogged' = (errLogged \/ o = "X")
    /\ UNCHANGED <<libVars, new_did, driver, method, stored_did, attempt, storedCreds,
                   sessionSaved, wbDid, didBin, system, pending, exitCode,
                   cleanupCalls, steps, apiCalls>>

AuthClearSession ==
    /\ pc = "auth_clear"
    /\ \E o \in Outcomes :
          /\ Call("clear_session", o, OnClearSession(o))
          /\ sessionSaved' = IF o = "T" THEN FALSE ELSE sessionSaved
          /\ attempt' = IF o \in {"T", "F"} THEN 1 ELSE attempt
          /\ errLogged' = (errLogged \/ o = "X")
    /\ UNCHANGED <<libVars, new_did, verified, driver, method, is_logged_in, stored_did, storedCreds,
                   wbDid, didBin, system, pending, exitCode, cleanupCalls,
                   steps, apiCalls>>

AuthLogin ==
    /\ pc = "auth_login"
    /\ \E o \in Outcomes :
          /\ Call("login_automatically", o, OnLogin(o, attempt))
          /\ is_logged_in' = IF o = "T" THEN TRUE ELSE is_logged_in
          /\ verified' = (verified \/ o = "T")
          /\ errLogged' = (errLogged \/ o = "X")
    /\ UNCHANGED <<libVars, new_did, driver, method, stored_did, attempt, storedCreds,
                   sessionSaved, wbDid, didBin, system, pending, exitCode,
                   cleanupCalls, steps, apiCalls>>

AuthSleep ==
    /\ pc = "auth_sleep"
    /\ \E o \in {"T", "I"} :
          /\ Call("sleep", o, OnSleep(o))
          /\ attempt' = IF o = "T" THEN attempt + 1 ELSE attempt
    /\ UNCHANGED <<libVars, new_did, verified, driver, method, errLogged, is_logged_in, stored_did,
                   storedCreds, sessionSaved, wbDid, didBin, system, pending,
                   exitCode, cleanupCalls, steps, apiCalls>>

AuthSaveSession ==
    /\ pc = "auth_save"
    /\ \E o \in Outcomes :
          /\ Call("save_session", o, OnSaveSession(o))
          /\ sessionSaved' = IF o = "T" THEN TRUE ELSE sessionSaved
          /\ errLogged' = (errLogged \/ o = "X")
    /\ UNCHANGED <<libVars, new_did, verified, driver, method, is_logged_in, stored_did, attempt,
                   storedCreds, wbDid, didBin, system, pending, exitCode,
                   cleanupCalls, steps, apiCalls>>

\* ------------------------------------------------------ discover_accounts
\* except Exception: log, return False
DiscExcept == Ret("F")

\* mutant: the authentication guard is inverted
NotAuthenticated_Inverted(logged) == logged

\* mutant: the authentication guard is missing
NotAuthenticated_Never(logged) == FALSE

\* if not self.is_logged_in: return False
NotAuthenticated(logged) == ~logged

OnDiscover(o) ==
    CASE o = "T" -> Go("disc_summary")
      [] o = "F" -> Ret("F")
      [] o = "X" -> DiscExcept
      [] o = "I" -> Interrupted

OnAccountSummary(o) ==
    CASE o = "T" -> Go("disc_enabled")
      [] o = "X" -> DiscExcept
      [] o = "I" -> Interrupted

\* mutant: an empty collection of enabled accounts fails the discovery
OnEnabledAccounts_EmptyFails(o) ==
    CASE o = "T" -> Ret("T")
      [] o = "F" -> Ret("F")
      [] o = "X" -> Ret("F")
      [] o = "I" -> Ret("I")

\* "T": some account is enabled, "F": the collection is empty
OnEnabledAccounts(o) ==
    CASE o \in {"T", "F"} -> Ret("T")
      [] o = "X" -> DiscExcept
      [] o = "I" -> Interrupted

DiscoverStart ==
    /\ pc = "disc_start"
    /\ IF NotAuthenticated(is_logged_in)
       THEN /\ pc' = "returned"
            /\ ret' = "F"
            /\ UNCHANGED <<log, errLogged>>
       ELSE \E o \in Outcomes :
               /\ Call("am_discover_accounts", o, OnDiscover(o))
               /\ errLogged' = (errLogged \/ o = "X")
    /\ UNCHANGED <<libVars, new_did, verified, driver, method, is_logged_in, stored_did, attempt,
                   storedCreds, sessionSaved, wbDid, didBin, system, pending,
                   exitCode, cleanupCalls, steps, apiCalls>>

DiscoverSummary ==
    /\ pc = "disc_summary"
    /\ \E o \in VoidOutcomes :
          /\ Call("get_account_summary", o, OnAccountSummary(o))
          /\ errLogged' = (errLogged \/ o = "X")
    /\ UNCHANGED <<libVars, new_did, verified, driver, method, is_logged_in, stored_did, attempt,
                   storedCreds, sessionSaved, wbDid, didBin, system, pending,
                   exitCode, cleanupCalls, steps, apiCalls>>

DiscoverEnabled ==
    /\ pc = "disc_enabled"
    /\ \E o \in Outcomes :
          /\ Call("get_enabled_accounts", o, OnEnabledAccounts(o))
          /\ errLogged' = (errLogged \/ o = "X")
    /\ UNCHANGED <<libVars, new_did, verified, driver, method, is_logged_in, stored_did, attempt,
                   storedCreds, sessionSaved, wbDid, didBin, system, pending,
                   exitCode, cleanupCalls, steps, apiCalls>>

\* ------------------------------------------------------ log_system_status
\* except Exception: log the error; the method returns None either way
StatusExcept == Ret("N")

OnLoginInfo(o) ==
    CASE o = "T" -> Go("status_session_info")
      [] o = "X" -> StatusExcept
      [] o = "I" -> Interrupted

OnSessionInfo(o) ==
    CASE o = "T" -> Ret("N")
      [] o = "X" -> StatusExcept
      [] o = "I" -> Interrupted

StatusLoginInfo ==
    /\ pc = "status_login_info"
    /\ \E o \in VoidOutcomes :
          /\ Call("get_login_info", o, OnLoginInfo(o))
          /\ errLogged' = (errLogged \/ o = "X")
    /\ UNCHANGED <<libVars, new_did, verified, driver, method, is_logged_in, stored_did, attempt,
                   storedCreds, sessionSaved, wbDid, didBin, system, pending,
                   exitCode, cleanupCalls, steps, apiCalls>>

StatusSessionInfo ==
    /\ pc = "status_session_info"
    /\ \E o \in VoidOutcomes :
          /\ Call("get_session_info", o, OnSessionInfo(o))
          /\ errLogged' = (errLogged \/ o = "X")
    /\ UNCHANGED <<libVars, new_did, verified, driver, method, is_logged_in, stored_did, attempt,
                   storedCreds, sessionSaved, wbDid, didBin, system, pending,
                   exitCode, cleanupCalls, steps, apiCalls>>

\* ----------------------------------------------------------------- cleanup
\* except Exception: log a warning
CleanupExcept == Ret("N")

\* mutant: cleanup logs out whether or not a session was established
OnRestore_AlwaysLogout(o, logged) ==
    CASE o = "T" -> Go("cleanup_logout")
      [] o = "X" -> Ret("N")
      [] o = "I" -> Ret("I")

\* after restore_original_account(): if self.login_manager and self.is_logged_in
OnRestore(o, logged) ==
    CASE o = "T" -> IF logged THEN Go("cleanup_logout") ELSE Ret("N")
      [] o = "X" -> CleanupExcept
      [] o = "I" -> Interrupted

OnLogout(o) ==
    CASE o = "T" -> Ret("N")
      [] o = "X" -> CleanupExcept
      [] o = "I" -> Interrupted

CleanupRestore ==
    /\ pc = "cleanup_restore"
    /\ \E o \in VoidOutcomes :
          /\ Call("restore_original_account", o, OnRestore(o, is_logged_in))
          /\ errLogged' = (errLogged \/ o = "X")
    /\ UNCHANGED <<libVars, new_did, verified, driver, method, is_logged_in, stored_did, attempt,
                   storedCreds, sessionSaved, wbDid, didBin, system, pending,
                   exitCode, cleanupCalls, steps, apiCalls>>

CleanupLogout ==
    /\ pc = "cleanup_logout"
    /\ \E o \in VoidOutcomes :
          /\ Call("logout", o, OnLogout(o))
          /\ errLogged' = (errLogged \/ o = "X")
    /\ UNCHANGED <<libVars, new_did, verified, driver, method, is_logged_in, stored_did, attempt,
                   storedCreds, sessionSaved, wbDid, didBin, system, pending,
                   exitCode, cleanupCalls, steps, apiCalls>>

\* ------------------------------------------------------------ run(), main()
\* sys.exit(code) inside main()'s try: control reaches the finally clause.
SysExit(code) ==
    /\ pending' = code
    /\ pc' = "main_finally"
    /\ UNCHANGED <<method, ret, log, errLogged>>

\* run(): what a step's result does.  "next": the step that follows,
\* "exit": the code main() passes to sys.exit once run() has returned.
\* A KeyboardInterrupt ("I") passes through run() to main()'s handler.
\* mutant: a failed step is retried by run(): authentication starts over
RunStep_Retry(r, following) ==
    IF r = "T" THEN [next |-> following, exit |-> -1]
               ELSE [next |-> "authenticate", exit |-> -1]

RunStep(r, following) ==
    IF r = "T" THEN [next |-> following, exit |-> -1]
               ELSE [next |-> "none", exit |-> 1]

\* log_system_status()'s result is not looked at
RunAfterStatusExit(r) == IF r = "I" THEN 1 ELSE 0

\* mutant: main() has no cleanup in its finally clause
CleanupDue_Never(sys) == FALSE

\* finally: if system: system.cleanup()
CleanupDue(sys) == sys

\* system = MainSystem(): "T" constructed, "L" setup_logging failed
\* (sys.exit(1) inside __init__), "X" _initialize_system re-raised,
\* "I" interrupted.  `system` is assigned only when __init__ returns.
MainConstruct ==
    /\ driver = "main"
    /\ pc = "main_start"
    /\ \E o \in {"T", "L", "X", "I"} :
          /\ steps' = [steps EXCEPT !.init = o]
          /\ IF o = "T"
             THEN /\ system' = TRUE
                  /\ Invoke("authenticate")
                  /\ UNCHANGED pending
             ELSE /\ SysExit(1)
                  /\ UNCHANGED system
    /\ UNCHANGED <<libVars, new_did, verified, driver, is_logged_in, stored_did, attempt, storedCreds,
                   sessionSaved, wbDid, didBin, exitCode, cleanupCalls,
                   apiCalls>>

RunAfterAuthenticate ==
    /\ driver = "main"
    /\ pc = "returned"
    /\ method = "authenticate"
    /\ steps' = [steps EXCEPT !.auth = ret]
    /\ LET d == RunStep(ret, "discover_accounts")
       IN  IF d.next # "none"
           THEN Invoke(d.next) /\ UNCHANGED pending
           ELSE SysExit(d.exit)
    /\ UNCHANGED <<libVars, new_did, verified, driver, is_logged_in, stored_did, attempt, storedCreds,
                   sessionSaved, wbDid, didBin, system, exitCode,
                   cleanupCalls, apiCalls>>

RunAfterDiscover ==
    /\ driver = "main"
    /\ pc = "returned"
    /\ method = "discover_accounts"
    /\ steps' = [steps EXCEPT !.disc = ret]
    /\ LET d == RunStep(ret, "log_system_status")
       IN  IF d.next # "none"
           THEN Invoke(d.next) /\ UNCHANGED pending
           ELSE SysExit(d.exit)
    /\ UNCHANGED <<libVars, new_did, verified, driver, is_logged_in, stored_did, attempt, storedCreds,
                   sessionSaved, wbDid, didBin, system, exitCode,
                   cleanupCalls, apiCalls>>

RunAfterStatus ==
    /\ driver = "main"
    /\ pc = "returned"
    /\ method = "log_system_status"
    /\ steps' = [steps EXCEPT !.status =
                     IF ret = "I" THEN "I" ELSE IF errLogged THEN "F" ELSE "T"]
    /\ SysExit(RunAfterStatusExit(ret))
    /\ UNCHANGED <<libVars, new_did, verified, driver, is_logged_in, stored_did, attempt, storedCreds,
                   sessionSaved, wbDid, didBin, system, exitCode,
                   cleanupCalls, apiCalls>>

MainFinally ==
    /\ driver = "main"
    /\ pc = "main_finally"
    /\ IF CleanupDue(system)
       THEN /\ Invoke("cleanup")
            /\ cleanupCalls' = cleanupCalls + 1
            /\ UNCHANGED exitCode
       ELSE /\ pc' = "exited"
            /\ exitCode' = pending
            /\ UNCHANGED <<method, ret, log, errLogged, cleanupCalls>>
    /\ UNCHANGED <<libVars, new_did, verified, driver, is_logged_in, stored_did, attempt, storedCreds,
                   sessionSaved, wbDid, didBin, system, pending, steps,
                   apiCalls>>

\* cleanup() returned: the pending SystemExit ends the process; a
\* KeyboardInterrupt leaving cleanup() replaces it and is not handled
\* (the interpreter then dies of SIGINT, status 130).
MainAfterCleanup ==
    /\ driver = "main"
    /\ pc = "returned"
    /\ method = "cleanup"
    /\ pc' = "exited"
    /\ exitCode' = IF ret = "I" THEN 130 ELSE pending
    /\ UNCHANGED <<libVars, new_did, verified, driver, method, ret, log, errLogged, is_logged_in,
                   stored_did, attempt, storedCreds, sessionSaved, wbDid,
                   didBin, system, pending, cleanupCalls, steps, apiCalls>>

\* ------------------------------------- update_did_in_credentials (DID script)
DidInputs == {""} \cup DIDs \cup ShortDIDs

\* update_credentials(did=...) rewrites the record it is given
UpdateCredentialsOutcomes == {"T", "F", "X", "I"}

\* if not new_did: return False
\* if len(new_did) != 32: ... if confirm not in ['y', 'yes']: return False
OnDidInput(d, confirm) ==
    IF d = "" THEN Ret("F")
    ELSE IF d \notin DIDs /\ ~confirm THEN Ret("F")
    ELSE Go("did_update")

\* if len(new_did) != 32: the user is asked "Continue anyway?"
AsksConfirm(d) == d # "" /\ d \notin DIDs

\* except Exception: print, return False
DidExcept == Ret("F")

\* mutant: did.bin is written whatever update_credentials returned
OnUpdateCredentials_WriteAnyway(o) ==
    CASE o \in {"T", "F"} -> Go("did_write_bin")
      [] o = "X" -> Ret("F")
      [] o = "I" -> Ret("I")

OnUpdateCredentials(o) ==
    CASE o = "T" -> Go("did_write_bin")
      [] o = "F" -> Ret("F")
      [] o = "X" -> DidExcept
      [] o = "I" -> Interrupted

\* the did.bin write has its own try/except: True is returned either way
OnDidBinUpdate(o) ==
    CASE o \in {"T", "X"} -> Ret("T")
      [] o = "I" -> Interrupted

DidInput ==
    /\ pc = "did_input"
    /\ \E d \in DidInputs, confirm \in BOOLEAN :
          /\ new_did' = d
          /\ log' = IF AsksConfirm(d)
                    THEN Append(log, <<"input_confirm", IF confirm THEN "T" ELSE "F">>)
                    ELSE log
          /\ pc' = OnDidInput(d, confirm).pc
          /\ ret' = OnDidInput(d, confirm).ret
    /\ UNCHANGED <<libVars, verified, driver, method, errLogged,
                   is_logged_in, stored_did, attempt, storedCreds,
                   sessionSaved, wbDid, didBin, system, pending, exitCode,
                   cleanupCalls, steps, apiCalls>>

DidUpdateCredentials ==
    /\ pc = "did_update"
    /\ \E o \in UpdateCredentialsOutcomes :
          /\ Call("update_credentials", o, OnUpdateCredentials(o))
          /\ storedCreds' = IF o = "T" THEN new_did ELSE storedCreds
          /\ errLogged' = (errLogged \/ o = "X")
    /\ UNCHANGED <<libVars, new_did, verified, driver, method, is_logged_in,
                   stored_did, attempt, sessionSaved, wbDid, didBin, system,
                   pending, exitCode, cleanupCalls, steps, apiCalls>>

DidWriteBin ==
    /\ pc = "did_write_bin"
    /\ \E o \in VoidOutcomes :
          /\ Call("did_bin", o, OnDidBinUpdate(o))
          /\ didBin' = IF o = "T" THEN new_did ELSE didBin
    /\ UNCHANGED <<libVars, new_did, verified, driver, method, errLogged,
                   is_logged_in, stored_did, attempt, storedCreds,
                   sessionSaved, wbDid, system, pending, exitCode,
                   cleanupCalls, steps, apiCalls>>

\* -------------------------------------------------------------- api driver
PublicMethods ==
    {"authenticate", "discover_accounts", "log_system_status", "cleanup"}

ApiInvoke ==
    /\ driver = "api"
    /\ pc \in {"idle", "returned"}
    /\ apiCalls < MaxApiCalls
    /\ apiCalls' = apiCalls + 1
    /\ \E m \in PublicMethods : Invoke(m)
    /\ UNCHANGED <<libVars, new_did, verified, driver, is_logged_in, stored_did, attempt, storedCreds,
                   sessionSaved, wbDid, didBin, system, pending, exitCode,
                   cleanupCalls, steps>>

\* check_and_manage_did() reaches update_did_in_credentials only with a
\* credential record that exists and loads.
ApiRunDidScript ==
    /\ driver = "api"
    /\ pc \in {"idle", "returned"}
    /\ apiCalls < MaxApiCalls
    /\ storedCreds # NoRecord
    /\ apiCalls' = apiCalls + 1
    /\ Invoke("update_did")
    /\ UNCHANGED <<libVars, new_did, verified, driver, is_logged_in,
                   stored_did, attempt, storedCreds, sessionSaved, wbDid,
                   didBin, system, pending, exitCode, cleanupCalls, steps>>

\* ----------------------------------------------------------- specification
\* no caller of get_stocks_for_strategy / optimize_for_performance
StrategiesOff ==
    /\ strategy_name = ""
    /\ stratOut = <<>>
    /\ stratPc = "off"
    /\ max_symbols_per_strategy = 0
    /\ optimized = <<>>
    /\ optPc = "off"

Init ==
    /\ driver \in {"main", "api"}
    /\ pc = IF driver = "main" THEN "main_start" ELSE "idle"
    /\ method = "none"
    /\ ret = "running"
    /\ log = <<>>
    /\ errLogged = FALSE
    /\ is_logged_in = FALSE
    /\ stored_did = ""
    /\ attempt = 0
    /\ storedCreds \in {NoRecord, ""} \cup DIDs
    /\ sessionSaved \in BOOLEAN
    /\ wbDid = "auto"
    /\ didBin \in {"none"} \cup DIDs
    /\ system = (driver = "api")
    /\ pending = -1
    /\ exitCode = -1
    /\ cleanupCalls = 0
    /\ steps = NoSteps
    /\ apiCalls = 0
    /\ verified = FALSE
    /\ new_did = ""
    /\ symIn = <<>>
    /\ symOut = <<>>
    /\ symPc = "off"
    /\ symAgain = <<>>
    /\ StrategiesOff

Next ==
    \/ AuthCredentialsExist
    \/ AuthLoadCredentials
    \/ AuthSetDid
    \/ AuthDidBin
    \/ AuthAutoManageSession
    \/ AuthCheckLoginStatus
    \/ AuthClearSession
    \/ AuthLogin
    \/ AuthSleep
    \/ AuthSaveSession
    \/ DiscoverStart
    \/ DiscoverSummary
    \/ DiscoverEnabled
    \/ StatusLoginInfo
    \/ StatusSessionInfo
    \/ CleanupRestore
    \/ CleanupLogout
    \/ MainConstruct
    \/ RunAfterAuthenticate
    \/ RunAfterDiscover
    \/ RunAfterStatus
    \/ MainFinally
    \/ MainAfterCleanup
    \/ ApiInvoke
    \/ ApiRunDidScript
    \/ DidInput
    \/ DidUpdateCredentials
    \/ DidWriteBin

Spec == Init /\ [][Next]_vars

\* Every collaborator call and every retry delay eventually returns, and the
\* interpreter goes on to the next statement: a step that can be taken is taken.
SpecFair == Init /\ [][Next]_vars /\ WF_vars(Next)

\* ------------------------------------- StockLists (src/config/stock_lists.py)
\* A symbol is a string, modelled as a sequence of characters; "" (the empty
\* sequence) is the falsy symbol that validate_symbols rejects.
Alphabet == {"a", "A", " "}
SeqsUpTo(S, n) == UNION {[1..k -> S] : k \in 0..n}
Symbols == SeqsUpTo(Alphabet, MaxSymLen)
SymbolLists == SeqsUpTo(Symbols, MaxSymbols)

\* str.upper()
UpperChar(c) == IF c = "a" THEN "A" ELSE c
Upper(sym) == [i \in 1..Len(sym) |-> UpperChar(sym[i])]

\* str.strip()
RECURSIVE StripLeft(_)
StripLeft(sym) ==
    IF sym = <<>> THEN <<>>
    ELSE IF Head(sym) = " " THEN StripLeft(Tail(sym)) ELSE sym

RECURSIVE StripRight(_)
StripRight(sym) ==
    IF sym = <<>> THEN <<>>
    ELSE IF sym[Len(sym)] = " " THEN StripRight(SubSeq(sym, 1, Len(sym) - 1)) ELSE sym

Strip(sym) == StripRight(StripLeft(sym))

\* symbol = symbol.strip().upper()
CleanSymbol(sym) == Upper(Strip(sym))

\* the loop of validate_symbols: `seen` is tested with the symbol as given,
\* and receives the cleaned symbol
RECURSIVE ValidateLoop(_, _, _)
ValidateLoop(list, cleaned, seen) ==
    IF list = <<>> THEN cleaned
    ELSE LET symbol == Head(list)
         IN  IF symbol \in seen THEN ValidateLoop(Tail(list), cleaned, seen)
             ELSE IF symbol = <<>> THEN ValidateLoop(Tail(list), cleaned, seen)
             ELSE ValidateLoop(Tail(list),
                               Append(cleaned, CleanSymbol(symbol)),
                               seen \cup {CleanSymbol(symbol)})

validate_symbols(symbol_list) == ValidateLoop(symbol_list, <<>>, {})

ValidateSymbolsCall ==
    /\ symPc = "call"
    /\ symOut' = validate_symbols(symIn)
    /\ symPc' = "done"
    /\ UNCHANGED <<symIn, symAgain, stratVars, sysVars>>

\* the caller validates the list it got back
ValidateSymbolsAgain ==
    /\ symPc = "done"
    /\ symAgain' = validate_symbols(symOut)
    /\ symPc' = "again"
    /\ UNCHANGED <<symIn, symOut, stratVars, sysVars>>

\* a caller of the library: no MainSystem exists
NoMainSystem ==
    /\ driver = "lib"
    /\ pc = "lib"
    /\ method = "none"
    /\ ret = "running"
    /\ log = <<>>
    /\ errLogged = FALSE
    /\ is_logged_in = FALSE
    /\ stored_did = ""
    /\ attempt = 0
    /\ storedCreds = NoRecord
    /\ sessionSaved = FALSE
    /\ wbDid = "auto"
    /\ didBin = "none"
    /\ system = FALSE
    /\ pending = -1
    /\ exitCode = -1
    /\ cleanupCalls = 0
    /\ steps = NoSteps
    /\ apiCalls = 0
    /\ verified = FALSE
    /\ new_did = ""

InitSymbols ==
    /\ NoMainSystem
    /\ symIn \in SymbolLists
    /\ symOut = <<>>
    /\ symPc = "call"
    /\ symAgain = <<>>
    /\ StrategiesOff

NextSymbols ==
    \/ ValidateSymbolsCall
    \/ ValidateSymbolsAgain

SpecSymbols == InitSymbols /\ [][NextSymbols]_vars

\* ----------------------------------------------- StockLists: the class lists
\* A ticker is a sequence of characters, as the symbols above.
CORE_ETFS ==
    <<
        <<"S","P","Y">>, <<"Q","Q","Q">>, <<"I","W","M">>, <<"V","T","V">>,
        <<"V","U","G">>, <<"I","W","D">>, <<"I","W","F">>, <<"X","L","F">>,
        <<"X","L","E">>, <<"X","L","V">>, <<"X","L","I">>, <<"X","L","U">>,
        <<"X","L","P">>, <<"X","L","R","E">>, <<"V","E","A">>, <<"V","W","O">> >>

\* [*CORE_ETFS, ...]
MEAN_REVERSION ==
    CORE_ETFS \o <<
        <<"A","A","P","L">>, <<"M","S","F","T">>, <<"G","O","O","G","L">>, <<"A","M","Z","N">>,
        <<"T","S","L","A">>, <<"N","V","D","A">>, <<"M","E","T","A">>, <<"J","P","M">>,
        <<"B","A","C">>, <<"U","S","B">>, <<"T","F","C">>, <<"P","N","C">>,
        <<"W","F","C">>, <<"G","S">>, <<"M","S">>, <<"X","O","M">>,
        <<"C","V","X">>, <<"E","O","G">>, <<"C","O","P">>, <<"J","N","J">>,
        <<"P","G">>, <<"K","O">>, <<"U","N","H">>, <<"H","D">>,
        <<"M","C","D">>, <<"O">>, <<"P","L","D">>, <<"C","C","I">>,
        <<"A","M","T">>, <<"D","U","K">>, <<"S","O">>, <<"N","E","E">> >>

SECTOR_ROTATION ==
    <<
        <<"X","L","K">>, <<"X","L","F">>, <<"X","L","E">>, <<"X","L","V">>,
        <<"X","L","I">>, <<"X","L","P">>, <<"X","L","U">>, <<"X","L","Y">>,
        <<"X","L","B">>, <<"X","L","R","E">>, <<"X","L","C">> >>

INTERNATIONAL_OUTPERFORMANCE ==
    <<
        <<"V","E","A">>, <<"E","F","A">>, <<"V","X","U","S">>, <<"I","E","F","A">>,
        <<"H","E","F","A">>, <<"H","E","D","J">>, <<"V","G","K">>, <<"E","W","J">>,
        <<"V","W","O">>, <<"E","E","M","A">>, <<"E","W","G">>, <<"E","W","U">>,
        <<"E","W","Y">>, <<"I","N","D","A">>, <<"F","X","I">>, <<"A","S","M","L">>,
        <<"N","V","O">>, <<"T","S","M">>, <<"U","L">> >>

VALUE_RATE_UNIVERSE ==
    <<
        <<"P","L","D">>, <<"E","X","R">>, <<"W","E","L","L">>, <<"V","T","R">>,
        <<"S","P","G">>, <<"R","E","G">>, <<"C","C","I">>, <<"A","M","T">>,
        <<"E","Q","R">>, <<"A","V","B">>, <<"X","L","R","E">>, <<"I","Y","R">>,
        <<"J","P","M">>, <<"B","A","C">>, <<"W","F","C">>, <<"C">>,
        <<"U","S","B">>, <<"T","F","C">>, <<"P","N","C">>, <<"G","S">>,
        <<"M","S">>, <<"X","L","F">>, <<"K","B","E">> >>

\* [*SECTOR_ROTATION, ...]
MICROSTRUCTURE_BREAKOUT ==
    SECTOR_ROTATION \o <<
        <<"S","P","Y">>, <<"Q","Q","Q">>, <<"I","W","M">>, <<"V","T","I">>,
        <<"V","T","V">>, <<"V","U","G">>, <<"A","A","P","L">>, <<"M","S","F","T">>,
        <<"G","O","O","G","L">>, <<"A","M","Z","N">>, <<"T","S","L","A">>, <<"N","V","D","A">>,
        <<"M","E","T","A">>, <<"B","R","K",".","B">>, <<"J","N","J">>, <<"J","P","M">>,
        <<"V">>, <<"M","A">>, <<"U","N","H">>, <<"A","M","D">>,
        <<"N","F","L","X">>, <<"C","R","M">>, <<"A","D","B","E">> >>

POLICY_MOMENTUM ==
    <<
        <<"X","L","F">>, <<"X","L","R","E">>, <<"X","L","U">>, <<"J","P","M">>,
        <<"B","A","C">>, <<"W","F","C">>, <<"U","S","B">>, <<"T","F","C">>,
        <<"T","S","L","A">>, <<"N","V","D","A">>, <<"A","M","D">>, <<"C","R","M">>,
        <<"N","F","L","X">>, <<"T","L","T">>, <<"I","E","F">>, <<"S","H","Y">>,
        <<"V","X","X">>, <<"G","L","D">>, <<"S","L","V">>, <<"U","U","P">> >>

\* [*CORE_ETFS, ...]
GAP_TRADING ==
    CORE_ETFS \o <<
        <<"A","R","K","K">>, <<"G","L","D">>, <<"T","L","T">>, <<"H","Y","G">>,
        <<"A","A","P","L">>, <<"M","S","F","T">>, <<"G","O","O","G","L">>, <<"A","M","Z","N">>,
        <<"T","S","L","A">>, <<"N","V","D","A">>, <<"M","E","T","A">>, <<"A","M","D">>,
        <<"S","N","O","W">>, <<"P","L","T","R">>, <<"R","O","K","U">>, <<"Z","M">>,
        <<"C","V","S">>, <<"B","A">>, <<"X">>, <<"F","C","X">> >>

BULLISH_MOMENTUM ==
    <<
        <<"A","A","P","L">>, <<"M","S","F","T">>, <<"G","O","O","G","L">>, <<"A","M","Z","N">>,
        <<"N","V","D","A">>, <<"M","E","T","A">>, <<"T","S","L","A">>, <<"C","R","M">>,
        <<"A","D","B","E">>, <<"N","F","L","X">>, <<"A","M","D">>, <<"S","N","O","W">>,
        <<"P","L","T","R">>, <<"Q","Q","Q">>, <<"A","R","K","K">>, <<"V","G","T">>,
        <<"X","L","K">>, <<"M","T","U","M">>, <<"X","L","F">>, <<"X","L","E">>,
        <<"X","L","V">> >>

CONSERVATIVE_STRATEGY ==
    <<
        <<"S","P","Y">>, <<"V","T","V">>, <<"V","E","A">>, <<"O">>,
        <<"U","S","B">>, <<"D","U","K">>, <<"V","G","K">>, <<"E","W","J">> >>

\* [..., *SECTOR_ROTATION[:5], ...]
AGGRESSIVE_STRATEGY ==
    <<
        <<"Q","Q","Q">>, <<"N","V","D","A">>, <<"T","S","L","A">>, <<"A","M","D">> >>
        \o SubSeq(SECTOR_ROTATION, 1, 5)
        \o <<
        <<"V","W","O">>, <<"E","W","Y">>, <<"I","N","D","A">>, <<"S","P","Y">>,
        <<"I","W","M">> >>

BALANCED_STRATEGY ==
    <<
        <<"S","P","Y">>, <<"Q","Q","Q">>, <<"V","T","V">>, <<"V","E","A">>,
        <<"U","S","B">>, <<"O">>, <<"X","L","F">>, <<"N","V","D","A">>,
        <<"C","R","M">>, <<"X","L","K">>, <<"V","G","K">>, <<"V","W","O">> >>

\* the literal list sliced for optimized['MeanReversion']
OptimizedMeanReversionTail ==
    <<
        <<"A","A","P","L">>, <<"M","S","F","T">>, <<"G","O","O","G","L">>, <<"A","M","Z","N">>,
        <<"T","S","L","A">>, <<"N","V","D","A">>, <<"J","P","M">>, <<"B","A","C">>,
        <<"X","O","M">>, <<"C","V","X">>, <<"J","N","J">>, <<"P","G">>,
        <<"O">>, <<"U","S","B">> >>

\* the literal list sliced for optimized['GapTrading']
OptimizedGapTradingTail ==
    <<
        <<"A","A","P","L">>, <<"M","S","F","T">>, <<"G","O","O","G","L">>, <<"A","M","Z","N">>,
        <<"T","S","L","A">>, <<"N","V","D","A">>, <<"M","E","T","A">>, <<"A","M","D">>,
        <<"N","F","L","X">>, <<"C","R","M">> >>

\* strategy_mapping of get_stocks_for_strategy
strategy_mapping ==
    [MeanReversion |-> MEAN_REVERSION,
     SectorRotation |-> SECTOR_ROTATION,
     International |-> INTERNATIONAL_OUTPERFORMANCE,
     ValueRate |-> VALUE_RATE_UNIVERSE,
     MicrostructureBreakout |-> MICROSTRUCTURE_BREAKOUT,
     PolicyMomentum |-> POLICY_MOMENTUM,
     GapTrading |-> GAP_TRADING,
     BullishMomentumDip |-> BULLISH_MOMENTUM,
     Conservative |-> CONSERVATIVE_STRATEGY,
     Aggressive |-> AGGRESSIVE_STRATEGY,
     Balanced |-> BALANCED_STRATEGY]

\* mutant: a plain subscript; a missing key yields nothing
DictGet_NoDefault(d, key, default) == IF key \in DOMAIN d THEN d[key] ELSE <<>>

\* dict.get(key, default)
DictGet(d, key, default) == IF key \in DOMAIN d THEN d[key] ELSE default

get_stocks_for_strategy(name) ==
    validate_symbols(DictGet(strategy_mapping, name, MEAN_REVERSION))

\* list[:n]: the first n elements; a negative n counts from the end
SliceTo(list, n) ==
    IF n >= 0
    THEN SubSeq(list, 1, IF n < Len(list) THEN n ELSE Len(list))
    ELSE SubSeq(list, 1, IF Len(list) + n > 0 THEN Len(list) + n ELSE 0)

\* `cls.CORE_ETFS + [...][:max]`: the slice binds to the literal list only
optimize_for_performance(max) ==
    [MeanReversion |-> CORE_ETFS \o SliceTo(OptimizedMeanReversionTail, max),
     SectorRotation |-> SECTOR_ROTATION,
     GapTrading |-> CORE_ETFS \o SliceTo(OptimizedGapTradingTail, max)]

\* strategy names a caller may pass: the mapped ones and some that are not
StrategyNames == DOMAIN strategy_mapping \cup {"", "meanreversion", "Unknown"}

GetStocksForStrategyCall ==
    /\ stratPc = "call"
    /\ stratOut' = get_stocks_for_strategy(strategy_name)
    /\ stratPc' = "done"
    /\ UNCHANGED <<strategy_name, max_symbols_per_strategy, optimized, optPc,
                   symVars, sysVars>>

OptimizeForPerformanceCall ==
    /\ optPc = "call"
    /\ optimized' = optimize_for_performance(max_symbols_per_strategy)
    /\ optPc' = "done"
    /\ UNCHANGED <<max_symbols_per_strategy, strategy_name, stratOut, stratPc,
                   symVars, sysVars>>

InitStrategies ==
    /\ NoMainSystem
    /\ symIn = <<>>
    /\ symOut = <<>>
    /\ symPc = "off"
    /\ symAgain = <<>>
    /\ strategy_name \in StrategyNames
    /\ stratOut = <<>>
    /\ stratPc = "call"
    /\ max_symbols_per_strategy \in 0..MaxPerStrategy
    /\ optimized = <<>>
    /\ optPc = "call"

NextStrategies ==
    \/ GetStocksForStrategyCall
    \/ OptimizeForPerformanceCall

SpecStrategies == InitStrategies /\ [][NextStrategies]_vars

\* ------------------------------------------------------------- properties
\* indices of the current invocation's calls of collaborator `name`
Calls(name) == {i \in 1..Len(log) : log[i][1] = name}
Count(name) == Cardinality(Calls(name))
Has(name, o) == \E i \in 1..Len(log) : log[i] = <<name, o>>
InAuth == method = "authenticate"

\* C1: when credentials_exist() reports that no record exists, authenticate()
\* returns False and calls nothing else: no _set_did, no auto_manage_session,
\* no check_login_status, no login_automatically.
C1_MissingCredentials ==
    (InAuth /\ Has("credentials_exist", "F")) =>
        /\ ret = "F"
        /\ Len(log) = 1
        /\ Count("_set_did") = 0
        /\ Count("auto_manage_session") = 0
        /\ Count("check_login_status") = 0
        /\ Count("login_automatically") = 0

C1_Witness ==
    /\ InAuth
    /\ pc = "returned"
    /\ storedCreds = NoRecord
    /\ log = << <<"credentials_exist", "F">> >>

\* C2: when auto_manage_session() restored a session and check_login_status()
\* reported it valid, authenticate() returns True without any
\* login_automatically call.
C2_ValidCachedSession ==
    (InAuth /\ Has("auto_manage_session", "T") /\ Has("check_login_status", "T")) =>
        /\ ret = "T"
        /\ is_logged_in
        /\ Count("login_automatically") = 0

C2_Witness ==
    /\ InAuth
    /\ pc = "returned"
    /\ Has("auto_manage_session", "T")
    /\ Has("check_login_status", "T")

\* C3: in every execution of authenticate(), between a failed verification
\* (check_login_status returned False) and any later login_automatically call
\* there is a clear_session call.
C3_ClearBeforeLogin ==
    InAuth =>
        \A i \in Calls("check_login_status") : \A j \in Calls("login_automatically") :
            (log[i][2] = "F" /\ i < j) =>
                \E k \in Calls("clear_session") : i < k /\ k < j

C3_Witness ==
    /\ InAuth
    /\ Has("check_login_status", "F")
    /\ Count("clear_session") = 1
    /\ Count("login_automatically") > 0

\* the k-th login_automatically call returned True
LoginSucceededAt(k) ==
    \E i \in Calls("login_automatically") :
        /\ log[i][2] = "T"
        /\ Cardinality({j \in Calls("login_automatically") : j <= i}) = k

AllLoginsFailed ==
    Cardinality({i \in Calls("login_automatically") : log[i][2] = "F"}) = max_attempts

\* the part of C4 that counts calls and delays
C4_Counts ==
    InAuth =>
        /\ Count("login_automatically") <= 3
        /\ AllLoginsFailed =>
              /\ Count("login_automatically") = 3
              /\ Count("sleep") = 2
              /\ ret = "F"
        /\ \A k \in 1..3 : LoginSucceededAt(k) =>
              /\ Count("login_automatically") = k
              /\ Count("sleep") = k - 1

\* C4: fresh login is attempted at most 3 times; three failures give exactly
\* 3 login calls, 2 delays and the result False; success at attempt k gives
\* exactly k login calls, k-1 delays and the result True.
C4_LoginRetries ==
    /\ C4_Counts
    /\ InAuth =>
          \A k \in 1..3 : (LoginSucceededAt(k) /\ ret \in {"T", "F"}) => ret = "T"

\* C5: discover_accounts() entered with is_logged_in false returns False and
\* calls none of AccountManager.discover_accounts, get_account_summary,
\* get_enabled_accounts.
C5_DiscoverNeedsLogin ==
    (method = "discover_accounts" /\ ~is_logged_in) =>
        /\ pc = "disc_start" \/ (pc = "returned" /\ ret = "F")
        /\ Count("am_discover_accounts") = 0
        /\ Count("get_account_summary") = 0
        /\ Count("get_enabled_accounts") = 0

C5_Witness ==
    /\ method = "discover_accounts"
    /\ ~is_logged_in
    /\ pc = "returned"
    /\ ret = "F"

RestoreCalledByCleanup ==
    /\ method = "cleanup"
    /\ Len(log) >= 1
    /\ log[1][1] = "restore_original_account"

AllStepsSucceeded ==
    /\ steps.auth = "T"
    /\ steps.disc = "T"
    /\ steps.status = "T"

\* C7: the exit code is 0 exactly when authentication, account discovery and
\* status reporting all succeeded, and 1 otherwise (stated for the runs whose
\* cleanup was not itself interrupted).
C7_ExitCode ==
    (driver = "main" /\ pc = "exited" /\ ret # "I") =>
        /\ exitCode = 0 <=> AllStepsSucceeded
        /\ exitCode # 0 => exitCode = 1

AuthCollaborators ==
    {"credentials_exist", "load_credentials", "_set_did", "auto_manage_session",
     "check_login_status", "clear_session", "login_automatically", "save_session"}

\* C8: an Exception raised by a collaborator call inside authenticate() does
\* not leave it: authenticate() returns False.
C8_AuthNeverRaises ==
    InAuth =>
        /\ ret # "X"
        /\ (\E i \in 1..Len(log) : log[i][1] \in AuthCollaborators /\ log[i][2] = "X") =>
              (ret = "F" /\ errLogged)

C8_Witness ==
    /\ InAuth
    /\ pc = "returned"
    /\ ret = "F"
    /\ Has("login_automatically", "X")

\* C9: after a successful fresh login, a save_session failure (False returned
\* or an Exception raised) leaves authenticate() returning True, and
\* save_session is called once only.
C9_SaveFailureNonFatal ==
    (InAuth /\ (Has("save_session", "F") \/ Has("save_session", "X"))) =>
        /\ ret = "T"
        /\ Count("save_session") = 1

\* C10: when the loaded credentials hold a device identifier, _set_did has
\* been applied before every check_login_status and login_automatically call.
C10_DidBeforeNetwork ==
    (InAuth /\ stored_did # "") =>
        \A j \in Calls("check_login_status") \cup Calls("login_automatically") :
            \E i \in Calls("_set_did") : i < j /\ log[i][2] = "T" /\ wbDid = stored_did

C10_Witness ==
    /\ InAuth
    /\ stored_did \in DIDs
    /\ Count("check_login_status") = 1
    /\ Count("login_automatically") > 0

LastCall == IF log = <<>> THEN <<"none", "none">> ELSE log[Len(log)]

StepOrder(m) ==
    CASE m = "none" -> 0
      [] m = "authenticate" -> 1
      [] m = "discover_accounts" -> 2
      [] m = "log_system_status" -> 3
      [] m = "cleanup" -> 4
      [] OTHER -> 5

\* one step of main(): the steps of run() are entered in order, each at most
\* once, the next one only after the one before returned True; a False result
\* of authenticate or discover_accounts ends run() (sys.exit(1) is pending)
C11_EdgeStep ==
    driver = "main" =>
        /\ method' # method => StepOrder(method') > StepOrder(method)
        /\ (ret # "running" /\ ret' = "running") => method' # method
        /\ (method' = "discover_accounts" /\ method # "discover_accounts") =>
               (method = "authenticate" /\ ret = "T")
        /\ (method' = "log_system_status" /\ method # "log_system_status") =>
               (method = "discover_accounts" /\ ret = "T")
        /\ (pc = "returned" /\ method \in {"authenticate", "discover_accounts"}
               /\ ret = "F") =>
               (pending' = 1 /\ pc' = "main_finally" /\ method' = method)

\* the part of C11 about order, single execution and the first two steps
C11_Edges == [][C11_EdgeStep]_vars

\* C11: run() is the linear machine START -> AUTHENTICATED ->
\* ACCOUNTS_DISCOVERED -> STATUS_REPORTED -> DONE without back edges; a
\* failure of any step, status reporting included, makes run() return False.
C11_LinearRun ==
    [][/\ C11_EdgeStep
       /\ (driver = "main" /\ pc = "returned" /\ method = "log_system_status"
              /\ ret = "N" /\ errLogged) => pending' = 1]_vars

\* C12: every cleanup() that starts with is_logged_in true and runs to its end
\* calls logout, also when restore_original_account failed.
C12_CleanupLogsOut ==
    (method = "cleanup" /\ ret = "N" /\ is_logged_in) => Count("logout") = 1

\* C13: the cached session is deleted when its verification fails and on
\* logout: after cleanup() logged out, the session cache holds no session.
C13_LogoutInvalidatesSession ==
    /\ (InAuth /\ Has("clear_session", "T") /\ ~Has("save_session", "T")) =>
           ~sessionSaved
    /\ (method = "cleanup" /\ Has("logout", "T")) => ~sessionSaved

\* C14: authenticate, discover_accounts and log_system_status each return a
\* boolean, whatever a collaborator raised, and run() returns a boolean.
C14_StepsReportBoolean ==
    /\ (pc = "returned" /\ ret # "I"
           /\ method \in {"authenticate", "discover_accounts", "log_system_status"}) =>
           ret \in {"T", "F"}
    /\ (driver = "main" /\ pending # -1) => pending \in {0, 1}

\* C15: when get_enabled_accounts() returns an empty collection,
\* discover_accounts() returns True, and run() goes on to log_system_status.
C15_ZeroEnabledIsSuccess ==
    [][/\ (method' = "discover_accounts" /\ Has("get_enabled_accounts", "F")') =>
              ret' = "T"
       /\ (driver = "main" /\ method = "discover_accounts"
              /\ Has("get_enabled_accounts", "F")) =>
              (method' = "log_system_status" /\ pc' = "status_login_info")]_vars

C15_Witness ==
    /\ driver = "main"
    /\ method = "discover_accounts"
    /\ pc = "returned"
    /\ ret = "T"
    /\ Has("get_enabled_accounts", "F")

\* C16: no step of authenticate() changes the stored credential record; the
\* record changes only in update_did_in_credentials, by an update_credentials
\* call that returned success.
C16_AuthLeavesCredentialStore ==
    [][/\ (method = "authenticate" /\ method' = "authenticate") =>
              storedCreds' = storedCreds
       /\ storedCreds' # storedCreds =>
              (method' = "update_did" /\ LastCall' = <<"update_credentials", "T">>)]_vars

C16_Witness ==
    /\ InAuth
    /\ pc = "returned"
    /\ ret = "T"
    /\ new_did \in DIDs
    /\ storedCreds = new_did
    /\ stored_did = new_did

NoDuplicates(seq) ==
    \A i, j \in 1..Len(seq) : i # j => seq[i] # seq[j]

\* the elements of seq, each kept at its first occurrence only
RECURSIVE FirstOccurrences(_)
FirstOccurrences(seq) ==
    IF seq = <<>> THEN <<>>
    ELSE LET init == FirstOccurrences(SubSeq(seq, 1, Len(seq) - 1))
             last == seq[Len(seq)]
         IN  IF \E i \in 1..Len(init) : init[i] = last THEN init ELSE Append(init, last)

IsValidSymbol(sym) == sym # <<>>

CleanedValid(list) ==
    LET valid == SelectSeq(list, IsValidSymbol)
    IN  [i \in 1..Len(valid) |-> CleanSymbol(valid[i])]

\* C17: validate_symbols returns no symbol twice; the result is the cleaned
\* valid input symbols in order of first occurrence.
C17_ValidateDeduplicates ==
    symPc = "done" =>
        /\ NoDuplicates(symOut)
        /\ symOut = FirstOccurrences(CleanedValid(symIn))

AccountManagerCalls ==
    Count("am_discover_accounts") + Count("get_account_summary")
        + Count("get_enabled_accounts")

\* C18: is_logged_in is true only if check_login_status or login_automatically
\* returned True earlier in the run, and no AccountManager call is made in a
\* state where neither has happened.
C18_VerifiedBeforeUse ==
    /\ is_logged_in => verified
    /\ AccountManagerCalls > 0 => verified

C18_Witness ==
    /\ verified
    /\ is_logged_in
    /\ method = "discover_accounts"
    /\ Count("get_enabled_accounts") = 1

SessionWritesShape ==
    /\ Count("save_session") <= 1
    /\ \A i \in Calls("save_session") :
          i > 1 /\ log[i - 1] = <<"login_automatically", "T">>
    /\ Has("check_login_status", "T") => Count("save_session") = 0
    /\ Count("clear_session") <= 1
    /\ \A i \in Calls("clear_session") :
          i > 1 /\ log[i - 1] = <<"check_login_status", "F">>

\* C19: in authenticate(), save_session is called at most once and only right
\* after a login_automatically call that returned True, clear_session at most
\* once and only right after a failed verification; no other step changes the
\* session cache.
C19_SessionCacheWrites ==
    [][method' = "authenticate" =>
          /\ SessionWritesShape'
          /\ sessionSaved' # sessionSaved =>
                (log' # log /\ LastCall'[1] \in {"save_session", "clear_session"})]_vars

C19_Witness ==
    /\ InAuth
    /\ pc = "returned"
    /\ Has("clear_session", "T")
    /\ Has("save_session", "T")
    /\ Has("login_automatically", "F")

\* C20: in authenticate(), a failed did.bin write leaves the workflow where a
\* successful one leaves it (at the session restore, nothing else changed);
\* after a successful write did.bin holds the stored credentials' identifier.
C20_DidBinNonFatal ==
    [][(pc = "auth_did_bin" /\ LastCall'[2] \in {"T", "X"}) =>
          /\ pc' = "auth_session"
          /\ ret' = "running"
          /\ <<errLogged, is_logged_in, stored_did, storedCreds, sessionSaved, wbDid>>'
                = <<errLogged, is_logged_in, stored_did, storedCreds, sessionSaved, wbDid>>
          /\ LastCall'[2] = "T" => didBin' = storedCreds
          /\ LastCall'[2] = "X" => didBin' = didBin]_vars

C20_Witness ==
    /\ InAuth
    /\ pc = "returned"
    /\ ret = "T"
    /\ Has("did_bin", "X")
    /\ didBin # storedCreds

\* what update_did_in_credentials has done so far in this invocation
C21_Shape ==
    /\ (new_did = "" /\ pc # "did_input") => (ret = "F" /\ log = <<>>)
    /\ Has("input_confirm", "F") => (ret = "F" /\ Len(log) = 1)
    /\ Count("update_credentials") <= 1
    /\ Count("did_bin") <= 1
    /\ \A i \in Calls("did_bin") :
          i > 1 /\ log[i - 1] = <<"update_credentials", "T">>
    /\ Has("update_credentials", "F") => ret = "F"
    /\ Has("did_bin", "T") => (didBin = new_did /\ storedCreds = new_did)
    /\ (pc = "returned" /\ Has("did_bin", "X")) => (ret = "T" /\ storedCreds = new_did)

\* C21: update_did_in_credentials writes the credential store and did.bin
\* only for an accepted DID and in a fixed order: an empty DID or an
\* unconfirmed DID of another length returns False with neither store
\* written; did.bin is written only after update_credentials returned success
\* and then holds the DID the credential store took; a did.bin write failure
\* after a successful credential update still returns True.
C21_DidUpdateOrder ==
    [][method' = "update_did" =>
          /\ C21_Shape'
          /\ storedCreds' # storedCreds =>
                (LastCall' = <<"update_credentials", "T">> /\ storedCreds' = new_did)
          /\ didBin' # didBin =>
                (LastCall' = <<"did_bin", "T">> /\ didBin' = storedCreds)
          /\ (pc' = "returned" /\ ret' = "F") => didBin' = didBin]_vars

C21_Witness ==
    /\ method = "update_did"
    /\ pc = "returned"
    /\ ret = "T"
    /\ new_did \in ShortDIDs
    /\ Has("input_confirm", "T")
    /\ Has("update_credentials", "T")
    /\ Has("did_bin", "X")
    /\ didBin # storedCreds

\* C24: after any invocation of authenticate() that returned, it returned
\* True if and only if is_logged_in is true; an invocation that returns False
\* leaves is_logged_in false.
C24_ReturnAgreesWithFlag ==
    (InAuth /\ pc = "returned" /\ ret \in {"T", "F"}) =>
        (ret = "T" <=> is_logged_in)

\* C25: cleanup() calls logout only if a cached session was verified or a
\* fresh login succeeded earlier in the same run, and a run of main() calls
\* logout at most once.
C25_LogoutNeedsSession ==
    /\ (method = "cleanup" /\ Count("logout") > 0) => (verified /\ is_logged_in)
    /\ pc = "cleanup_logout" => (verified /\ is_logged_in)
    /\ driver = "main" =>
          /\ cleanupCalls <= 1
          /\ Count("logout") <= 1
          /\ method # "cleanup" => Count("logout") = 0

C25_Witness ==
    /\ driver = "main"
    /\ pc = "exited"
    /\ steps.auth = "T"
    /\ verified
    /\ Has("logout", "T")

C22_OptimizedWithinLimit ==
    optPc = "done" =>
        \A k \in DOMAIN optimized : Len(optimized[k]) <= max_symbols_per_strategy

\* C23: get_stocks_for_strategy is total: a name that is not one of the 11
\* mapped names gets the validated MEAN_REVERSION list, which is not empty; a
\* mapped name gets the validated list of its strategy.
C23_StrategyLookupTotal ==
    /\ Cardinality(DOMAIN strategy_mapping) = 11
    /\ stratPc = "done" =>
          /\ stratOut # <<>>
          /\ strategy_name \notin DOMAIN strategy_mapping =>
                stratOut = validate_symbols(MEAN_REVERSION)
          /\ strategy_name \in DOMAIN strategy_mapping =>
                stratOut = validate_symbols(strategy_mapping[strategy_name])

C23_Witness ==
    /\ stratPc = "done"
    /\ strategy_name = "Unknown"
    /\ Len(stratOut) = 48
    /\ stratOut[17] = <<"A", "A", "P", "L">>

\* C27: validate_symbols is idempotent: validating a validated list returns
\* the same list.
C27_ValidateIdempotent ==
    symPc = "again" => symAgain = symOut

=============================================================================
